---- MODULE Spec2Model ----
(***************************************************************************)
(* State-machine model of the pomodoro-tui timer: the start-up menus of    *)
(* main(), the event loop pomodoro_event_loop() with its key handling,     *)
(* timer_tick(), handle_session_transition() and prompt_continue(), and    *)
(* the arguments handed to draw().                                         *)
(*                                                                         *)
(* One loop iteration is three consecutive steps, told apart by pc:        *)
(*   "getch"  the key poll and key handling   (pomodoro.cpp 146-174)       *)
(*   "clock"  the advance / redraw / sleep    (pomodoro.cpp 175-203)       *)
(*   "prompt_break", "prompt_study"  the blocking getch() of               *)
(*            prompt_continue() inside handle_session_transition()         *)
(***************************************************************************)
EXTENDS Integers, Sequences, FiniteSets

\* ---------------------------------------------------------------- constants
kSecondsPerMinute == 60
kMicrosecondsPerSecond == 1000000
kMicrosecondsPerMinute == 60000000
kIntervalUs == 10000
kBarWidth == 40

\* ------------------------------------------------------------------- bounds
\* Only presets of at most this many seconds are confirmed in the menus.
MaxPresetSeconds == 600
\* handle_session_transition is entered at most this often after the loop
\* starts or the clock is reset.
MaxTransitions == 3
\* Largest total_seconds the timer_tick harness starts from.
MaxHarnessSeconds == 3
\* The draw harness tries every total from 0 up to this one, besides the
\* presets' totals.
MaxFillTotal == 45
\* The menu harness tries every number of options from 1 up to this one.
MaxMenuOptions == 8

\* --------------------------------------------------------------------- keys
\* getch() results: the characters, the keypad codes, and ERR (no key waiting
\* in non-blocking mode, or an interrupted read).
MenuKeys == {"KEY_UP", "KEY_DOWN", "ENTER", "x"}
LoopKeys == {"q", "s", "r", "Q", "S", "R", "KEY_UP", "ENTER", "ERR"}
PromptKeys == {"q", "Q", "s", "ERR"}

\* ------------------------------------------------------------------ presets
SessionTime(m, s) == [minutes |-> m, seconds |-> s]

StudyOptions(debug) ==
  <<SessionTime(25, 0), SessionTime(50, 0)>>
    \o (IF debug THEN <<SessionTime(0, 10)>> ELSE <<>>)

BreakOptions(debug) ==
  <<SessionTime(5, 0), SessionTime(10, 0)>>
    \o (IF debug THEN <<SessionTime(0, 5)>> ELSE <<>>)

\* Mutant: the seconds field is dropped from the conversion.
SessionSecondsMinutesOnly(t) == t.minutes * kSecondsPerMinute

\* current.minutes * kSecondsPerMinute + current.seconds
SessionSeconds(t) == t.minutes * kSecondsPerMinute + t.seconds

\* tick_state = {seconds, 0}
TimerTickState(total, elapsed) == [total_seconds |-> total, elapsed_us |-> elapsed]

NewTickState(t) == TimerTickState(SessionSeconds(t), 0)

\* C++ integer division truncates toward zero.
CDiv(a, b) == IF a >= 0 THEN a \div b ELSE -((-a) \div b)

\* -------------------------------------------------------------- pure pieces
\* Mutant: the second boundary is tested with > instead of >=.
TimerTickStrict(state, interval_us) ==
  LET e == state.elapsed_us + interval_us IN
    IF e > kMicrosecondsPerSecond
      THEN IF state.total_seconds > 0
             THEN [state |-> [total_seconds |-> state.total_seconds - 1,
                              elapsed_us |-> 0], expired |-> FALSE]
             ELSE [state |-> [total_seconds |-> state.total_seconds,
                              elapsed_us |-> 0], expired |-> TRUE]
      ELSE [state |-> [total_seconds |-> state.total_seconds, elapsed_us |-> e],
            expired |-> FALSE]

\* Mutant: the decrement has no floor; the call that finds 0 returns true and
\* leaves -1.
TimerTickBelowZero(state, interval_us) ==
  LET e == state.elapsed_us + interval_us IN
    IF e >= kMicrosecondsPerSecond
      THEN [state |-> TimerTickState(state.total_seconds - 1, 0),
            expired |-> state.total_seconds <= 0]
      ELSE [state |-> TimerTickState(state.total_seconds, e), expired |-> FALSE]

\* Mutant: at 0 the second boundary only clears the accumulator; the call
\* never returns true.
TimerTickNeverExpires(state, interval_us) ==
  LET e == state.elapsed_us + interval_us IN
    IF e >= kMicrosecondsPerSecond
      THEN [state |-> TimerTickState(IF state.total_seconds > 0
                                       THEN state.total_seconds - 1
                                       ELSE state.total_seconds, 0),
            expired |-> FALSE]
      ELSE [state |-> TimerTickState(state.total_seconds, e), expired |-> FALSE]

\* timer_tick: the new state and the returned flag.
TimerTick(state, interval_us) ==
  LET e == state.elapsed_us + interval_us IN
    IF e >= kMicrosecondsPerSecond
      THEN IF state.total_seconds > 0
             THEN [state |-> TimerTickState(state.total_seconds - 1, 0),
                   expired |-> FALSE]
             ELSE [state |-> TimerTickState(state.total_seconds, 0),
                   expired |-> TRUE]
      ELSE [state |-> TimerTickState(state.total_seconds, e), expired |-> FALSE]

\* Mutant: only the lower-case key quits.
PromptContinueLowerOnly(k) == k # "q"

\* prompt_continue's result for the key it read.
PromptContinue(k) == k # "q" /\ k # "Q"

\* Mutant: non-blocking mode is restored only after a successful read.
NodelayAfterPromptUnlessErr(k) == k # "ERR"

\* prompt_continue: the input mode after its getch() returned k; line 87 runs
\* nodelay(stdscr, TRUE) unconditionally, getch() being a C call that returns
\* ERR instead of throwing.
NodelayAfterPrompt(k) == TRUE

\* Mutant: the quit test ignores case.
IsQuitKeyAnyCase(k) == k \in {"q", "Q"}

\* Mutant: the quit test compares with the wrong case.
IsQuitKeyUpper(k) == k = "Q"

\* The loop's quit test.
IsQuitKey(k) == k = "q"

\* Mutant: the 's' branch toggles paused whether or not the timer runs.
StartPauseAlwaysToggles(run, pau) == [running |-> run, paused |-> ~pau]

\* Mutant: the 's' branch sets paused instead of toggling it.
StartPauseNoResume(run, pau) ==
  IF ~run THEN [running |-> TRUE, paused |-> FALSE]
          ELSE [running |-> run, paused |-> TRUE]

\* The 's' branch: the new (running, paused) flags.
StartPause(run, pau) ==
  IF ~run THEN [running |-> TRUE, paused |-> FALSE]
          ELSE [running |-> run, paused |-> ~pau]

\* Mutant: the 's' branch writes the study texts during a break too.
StartPauseStatusStudyOnly(brkOn, pau) == IF pau THEN "Paused" ELSE "Running"

\* Status text set by the 's' branch, from the flags it just wrote.
StartPauseStatus(brkOn, pau) ==
  IF pau THEN (IF brkOn THEN "Break Paused" ELSE "Paused")
         ELSE (IF brkOn THEN "Break Running" ELSE "Running")

\* Mutant: reset always reloads the study duration.
ResetDurationStudyOnly(brkOn, study, brkTime) == study

\* The 'r' branch: the duration it reloads.
ResetDuration(brkOn, study, brkTime) == IF brkOn THEN brkTime ELSE study

\* Mutant: on_break is not cleared when a break has ended.
ContinueKindKept(to_study, brkOn) == brkOn

\* handle_session_transition after prompt_continue returned true: the session
\* kind (line 127 sets on_break = false when a break has ended).
ContinueKind(to_study, brkOn) == IF to_study THEN FALSE ELSE brkOn

\* Mutant: the study duration is not reloaded when a break has ended.
ContinueTickStateKept(to_study, study, ts) == ts

\* handle_session_transition after prompt_continue returned true: the tick
\* state (line 129 reloads the study duration when a break has ended; after a
\* study session line 113 has already loaded the break duration).
ContinueTickState(to_study, study, ts) ==
  IF to_study THEN NewTickState(study) ELSE ts

\* Mutant: the loop advances the clock whenever running, paused or not.
ClockRunsIgnoringPause(run, pau) == run

\* The loop's test for advancing the clock.
ClockRuns(run, pau) == run /\ ~pau

\* Mutant: KEY_UP stops at the first entry instead of wrapping to Quit.
MenuUpClamped(c, max_choice) == IF c = 0 THEN 0 ELSE c - 1

\* prompt_selection: the index after KEY_UP / KEY_DOWN.
MenuUp(c, max_choice) == (c - 1 + (max_choice + 1)) % (max_choice + 1)
MenuDown(c, max_choice) == (c + 1) % (max_choice + 1)

\* prompt_selection: the value returned on Enter.
MenuReturn(c, num_options, allow_quit) ==
  IF allow_quit /\ c = num_options THEN -1 ELSE c

\* Mutant: the bar is filled by the remaining share instead of the elapsed one.
FillRemaining(total_seconds, remaining_seconds) ==
  IF total_seconds > 0
    THEN CDiv(remaining_seconds * kBarWidth, total_seconds)
    ELSE 0

\* draw: the bar fill computed from (total_seconds, remaining_seconds).
Fill(total_seconds, remaining_seconds) ==
  LET elapsed == total_seconds - remaining_seconds IN
    IF total_seconds > 0
      THEN IF remaining_seconds = 0 /\ elapsed > 0
             THEN kBarWidth
             ELSE CDiv(elapsed * kBarWidth, total_seconds)
      ELSE 0

\* draw: whether line 271, the only division, is executed.
FillDivides(total_seconds, remaining_seconds) ==
  /\ total_seconds > 0
  /\ ~(remaining_seconds = 0 /\ total_seconds - remaining_seconds > 0)

\* draw: std::string(fill, '#') and std::string(kBarWidth - fill, ' ') take a
\* size_t count; a negative int converts to a count above max_size() and the
\* constructor throws std::length_error, which nothing catches.
DrawThrows(total_seconds, remaining_seconds) ==
  LET fill == Fill(total_seconds, remaining_seconds) IN
    fill < 0 \/ kBarWidth - fill < 0

\* draw: what is painted.
Draw(minutes, seconds, st, total_seconds, remaining_seconds) ==
  [minutes |-> minutes, seconds |-> seconds, status |-> st,
   total_seconds |-> total_seconds, remaining_seconds |-> remaining_seconds,
   fill |-> Fill(total_seconds, remaining_seconds)]

\* int is 32 bits wide.  The bounds are written so that no intermediate value
\* leaves that range.
IntMax == (2^30 - 1) * 2 + 1
IntMin == -IntMax - 1

\* a * k in int, for a >= 0 and k > 0 with a * k < 2^32: whether the product
\* leaves the int range, and the value a two's-complement build leaves
\* (a * k - 2^32, computed without forming a * k).
MulOverflows(a, k) == a > IntMax \div k
MulWrap32(a, k) ==
  IF MulOverflows(a, k)
    THEN (a - 2 * (IntMax \div k)) * k - 2 * (IntMax % k) - 2
    ELSE a * k

\* x - e in int, for e >= 0: whether the difference leaves the int range, and
\* the wrapped value x - e + 2^32.
SubOverflows(x, e) == x < IntMin + e
SubWrap32(x, e) ==
  IF SubOverflows(x, e) THEN (((x - IntMin) - e) + IntMax) + 1 ELSE x - e

\* C++ % : the remainder has the sign of the dividend.
CRem(a, b) == a - b * CDiv(a, b)

\* The int product and difference of lines 183-184 (running branch) and line
\* 197 (stopped / paused branch): whether either leaves the int range, which
\* is undefined behaviour.
DisplayOverflows(ts, run) ==
  \/ MulOverflows(ts.total_seconds, kMicrosecondsPerSecond)
  \/ run /\ SubOverflows(MulWrap32(ts.total_seconds, kMicrosecondsPerSecond),
                         ts.elapsed_us)

\* display_total_us of either branch, as 32-bit wrapping arithmetic computes
\* it; the running branch clamps a negative remaining_us to 0 (lines 185-187).
DisplayTotalUs(ts, run) ==
  LET product == MulWrap32(ts.total_seconds, kMicrosecondsPerSecond)
      raw == SubWrap32(product, ts.elapsed_us)
  IN IF run THEN (IF raw < 0 THEN 0 ELSE raw) ELSE product

\* display_minutes and display_seconds (lines 189-191, 198-200).
DisplayMinutes(us) == CDiv(us, kMicrosecondsPerMinute)
DisplaySeconds(us) == CRem(CDiv(us, kMicrosecondsPerSecond), kSecondsPerMinute)

\* The redraw of the running branch (lines 183-193).
DrawRunning(ts, st, initial_total) ==
  LET us == DisplayTotalUs(ts, TRUE)
  IN Draw(DisplayMinutes(us), DisplaySeconds(us), st, initial_total,
          ts.total_seconds)

\* The redraw of the stopped / paused branch (lines 196-202).
DrawIdle(ts, st, initial_total) ==
  LET us == DisplayTotalUs(ts, FALSE)
  IN Draw(DisplayMinutes(us), DisplaySeconds(us), st, initial_total,
          ts.total_seconds)

\* Placeholders for objects that do not exist yet.
NoSession == SessionTime(0, 0)
NoTick == TimerTickState(-1, -1)
NoScreen == Draw(0, 0, "", 0, 0)

\* -------------------------------------------------------------------- state
VARIABLES
  pc,                    \* where the program is (see the module header)
  debug_mode,            \* main: --debug was given
  choice,                \* prompt_selection: the highlighted index
  study_choice,          \* main: the study menu's result (-1 before it is set)
  pomodoro, brk,         \* main: the chosen study and break SessionTime
  current,               \* loop: SessionTime of the active session
  tick_state,            \* loop: TimerTickState
  initial_total_seconds, \* loop: const int set once at loop entry
  status,                \* loop: status string
  on_break,              \* loop: session kind (FALSE = Study, TRUE = Break)
  running, paused,       \* the two global flags
  key_code,              \* the value the last getch() returned
  nodelay,               \* terminal input mode: TRUE = non-blocking
  screen,                \* arguments and fill of the last draw()
  exit_code,             \* -1 while the process runs, then its exit status
  exit_at,               \* which return ended main
  \* history, kept only to state properties
  advances,              \* timer_tick calls since loop entry / last reset key
  transitions,           \* handle_session_transition calls since then
  start_break,           \* on_break at loop entry / last reset key
  ticks,                 \* timer_tick calls since tick_state was last initialised
  last_completed,        \* kind of the last session that expired
  pause_snapshot,        \* tick_state when the current pause was handled
  seen,                  \* (RunState, on_break) pairs found by a getch() so far
  \* timer_tick harness
  h_start, h_state, h_interval, h_calls, h_expired,
  \* draw harness: the two int arguments, the fill computed (-1 before the
  \* call) and whether the division was executed
  f_total, f_remaining, f_fill, f_divided,
  \* display harness: the TimerTickState and the branch of one redraw, what it
  \* hands to draw, and whether its int arithmetic overflowed
  d_state, d_running, d_screen, d_overflow,
  \* menu harness: options.size(), the highlighted index, and the value
  \* prompt_selection returned (-2 while it has not)
  m_num_options, m_choice, m_result

loopVars == <<current, tick_state, initial_total_seconds, status, on_break,
              running, paused, screen>>
mainVars == <<debug_mode, choice, study_choice, pomodoro, brk>>
histVars == <<advances, transitions, start_break, ticks, last_completed,
              pause_snapshot>>
tickVars == <<h_start, h_state, h_interval, h_calls, h_expired>>
fillVars == <<f_total, f_remaining, f_fill, f_divided>>
dispVars == <<d_state, d_running, d_screen, d_overflow>>
menuVars == <<m_num_options, m_choice, m_result>>
harnessVars == <<tickVars, fillVars, dispVars, menuVars>>
vars == <<pc, key_code, nodelay, exit_code, exit_at, mainVars, loopVars,
          histVars, seen, harnessVars>>

\* ---------------------------------------------------------------------- Init
\* A harness that is not in use.
TickHarnessOff ==
  /\ h_start = NoTick /\ h_state = NoTick /\ h_interval = 0
  /\ h_calls = 0 /\ h_expired = FALSE

FillHarnessOff ==
  /\ f_total = 0 /\ f_remaining = 0 /\ f_fill = -1 /\ f_divided = FALSE

MenuHarnessOff ==
  /\ m_num_options = 0 /\ m_choice = 0 /\ m_result = -2

DisplayHarnessOff ==
  /\ d_state = NoTick /\ d_running = FALSE /\ d_screen = NoScreen
  /\ d_overflow = FALSE

\* main() up to the first prompt_selection: cbreak, noecho, nodelay(FALSE).
Init ==
  /\ pc = "study_menu"
  /\ debug_mode \in BOOLEAN
  /\ choice = 0
  /\ study_choice = -1
  /\ pomodoro = NoSession /\ brk = NoSession /\ current = NoSession
  /\ tick_state = NoTick
  /\ initial_total_seconds = 0
  /\ status = ""
  /\ on_break = FALSE
  /\ running = FALSE /\ paused = FALSE
  /\ key_code = "none"
  /\ nodelay = FALSE
  /\ screen = NoScreen
  /\ exit_code = -1 /\ exit_at = "none"
  /\ advances = 0 /\ transitions = 0 /\ start_break = FALSE /\ ticks = 0
  /\ last_completed = "None" /\ pause_snapshot = NoTick
  /\ seen = {}
  /\ TickHarnessOff
  /\ FillHarnessOff
  /\ DisplayHarnessOff
  /\ MenuHarnessOff

\* -------------------------------------------------------------------- menus
MenuOptions == IF pc = "study_menu" THEN StudyOptions(debug_mode)
                                    ELSE BreakOptions(debug_mode)

\* max_choice = allow_quit ? num_options : num_options - 1
MaxChoice(num_options, allow_quit) ==
  IF allow_quit THEN num_options ELSE num_options - 1

\* prompt_selection: one key that is not Enter.
MenuMove(k) ==
  /\ pc \in {"study_menu", "break_menu"}
  /\ k # "ENTER"
  /\ key_code' = k
  /\ choice' = LET max_choice == MaxChoice(Len(MenuOptions), TRUE) IN
                 IF k = "KEY_UP" THEN MenuUp(choice, max_choice)
                 ELSE IF k = "KEY_DOWN" THEN MenuDown(choice, max_choice)
                 ELSE choice
  /\ UNCHANGED <<seen, pc, nodelay, exit_code, exit_at, debug_mode, study_choice,
                 pomodoro, brk, loopVars, histVars, harnessVars>>

\* main: endwin(); return 0;
Exit(where) ==
  /\ pc' = "exited"
  /\ exit_code' = 0
  /\ exit_at' = where

\* Enter in the study menu, and main's use of the result.
StudyMenuEnter ==
  /\ pc = "study_menu"
  /\ key_code' = "ENTER"
  /\ LET options == StudyOptions(debug_mode)
         ret == MenuReturn(choice, Len(options), TRUE)
     IN IF ret = -1
          THEN /\ Exit("study_menu")
               /\ UNCHANGED <<choice, study_choice>>
          ELSE /\ SessionSeconds(options[ret + 1]) <= MaxPresetSeconds
               /\ study_choice' = ret
               /\ choice' = 0
               /\ pc' = "break_menu"
               /\ UNCHANGED <<exit_code, exit_at>>
  /\ UNCHANGED <<seen, nodelay, debug_mode, pomodoro, brk, loopVars, histVars,
                 harnessVars>>

\* Enter in the break menu, main's use of the result, and the entry of
\* pomodoro_event_loop up to its first getch().
BreakMenuEnter ==
  /\ pc = "break_menu"
  /\ key_code' = "ENTER"
  /\ LET options == BreakOptions(debug_mode)
         ret == MenuReturn(choice, Len(options), TRUE)
     IN IF ret = -1
          THEN /\ Exit("break_menu")
               /\ UNCHANGED <<nodelay, pomodoro, brk, loopVars, histVars>>
          ELSE LET study == StudyOptions(debug_mode)[study_choice + 1]
                   ts == NewTickState(study)
               IN /\ SessionSeconds(options[ret + 1]) <= MaxPresetSeconds
                  /\ nodelay' = TRUE
                  /\ pomodoro' = study
                  /\ brk' = options[ret + 1]
                  /\ current' = study
                  /\ tick_state' = ts
                  /\ initial_total_seconds' = ts.total_seconds
                  /\ status' = "Stopped"
                  /\ on_break' = FALSE
                  /\ screen' = Draw(study.minutes, study.seconds, "Stopped",
                                    ts.total_seconds, ts.total_seconds)
                  /\ pc' = "getch"
                  /\ advances' = 0 /\ transitions' = 0 /\ start_break' = FALSE
                  /\ ticks' = 0
                  /\ UNCHANGED <<running, paused, exit_code, exit_at,
                                 last_completed, pause_snapshot>>
  /\ UNCHANGED <<seen, choice, debug_mode, study_choice, harnessVars>>

\* --------------------------------------------------------------- event loop
\* Lines 146-174: getch(), the quit test, the 's' branch and the 'r' branch.
HandleKey(k) ==
  /\ pc = "getch"
  /\ key_code' = k
  /\ seen' = seen \cup {<<CASE ~running -> "Stopped"
                                [] running /\ paused -> "Paused"
                                [] OTHER -> "Running",
                           on_break>>}
  /\ IF IsQuitKey(k)
       THEN /\ Exit("loop_quit")
            /\ UNCHANGED <<loopVars, histVars>>
       ELSE LET sp == StartPause(running, paused)
                run1 == IF k = "s" THEN sp.running ELSE running
                pau1 == IF k = "s" THEN sp.paused ELSE paused
                status1 == IF k = "s" THEN StartPauseStatus(on_break, pau1)
                                      ELSE status
                cur2 == ResetDuration(on_break, pomodoro, brk)
            IN /\ pc' = "clock"
               /\ IF k = "r"
                    THEN /\ running' = FALSE
                         /\ paused' = FALSE
                         /\ current' = cur2
                         /\ tick_state' = NewTickState(cur2)
                         /\ status' = IF on_break THEN "Break Stopped"
                                                  ELSE "Stopped"
                         /\ advances' = 0 /\ transitions' = 0
                         /\ start_break' = on_break
                         /\ ticks' = 0
                         /\ pause_snapshot' = NoTick
                    ELSE /\ running' = run1
                         /\ paused' = pau1
                         /\ status' = status1
                         /\ pause_snapshot' =
                              IF k = "s" /\ pau1 THEN tick_state
                                                 ELSE pause_snapshot
                         /\ UNCHANGED <<current, tick_state, advances,
                                        transitions, start_break, ticks>>
               /\ UNCHANGED <<exit_code, exit_at, on_break, screen,
                              initial_total_seconds, last_completed>>
  /\ UNCHANGED <<nodelay, mainVars, harnessVars>>

\* draw() from the loop: the screen is painted and the loop goes on, or the
\* bar's std::string throws and std::terminate aborts the process (SIGABRT,
\* exit status 128 + 6).
Redraw(scr) ==
  IF DrawThrows(scr.total_seconds, scr.remaining_seconds)
    THEN /\ pc' = "aborted"
         /\ exit_code' = 128 + 6
         /\ exit_at' = "abort"
         /\ UNCHANGED screen
    ELSE /\ pc' = "getch"
         /\ screen' = scr
         /\ UNCHANGED <<exit_code, exit_at>>

\* Lines 175-194 when running && !paused: timer_tick, and either the redraw or,
\* when it returned true, handle_session_transition up to prompt_continue's
\* blocking getch().
ClockAdvance ==
  /\ pc = "clock"
  /\ ClockRuns(running, paused)
  /\ advances' = advances + 1
  /\ pause_snapshot' = NoTick
  /\ LET r == TimerTick(tick_state, kIntervalUs) IN
       IF r.expired
         THEN /\ transitions < MaxTransitions
              /\ transitions' = transitions + 1
              /\ last_completed' = IF on_break THEN "Break" ELSE "Study"
              /\ running' = FALSE
              /\ nodelay' = FALSE
              /\ IF ~on_break
                   THEN /\ on_break' = TRUE
                        /\ current' = brk
                        /\ tick_state' = NewTickState(brk)
                        /\ status' = "Break Ready"
                        /\ ticks' = 0
                        /\ pc' = "prompt_break"
                   ELSE /\ tick_state' = r.state
                        /\ ticks' = ticks + 1
                        /\ pc' = "prompt_study"
                        /\ UNCHANGED <<on_break, current, status>>
              /\ UNCHANGED <<screen, exit_code, exit_at>>
         ELSE /\ tick_state' = r.state
              /\ ticks' = ticks + 1
              /\ Redraw(DrawRunning(r.state, status, initial_total_seconds))
              /\ UNCHANGED <<transitions, last_completed, running, nodelay,
                             on_break, current, status>>
  /\ UNCHANGED <<seen, key_code, paused, initial_total_seconds, start_break,
                 mainVars, harnessVars>>

\* Lines 195-203 when stopped or paused: sleep and redraw.
ClockIdle ==
  /\ pc = "clock"
  /\ ~ClockRuns(running, paused)
  /\ Redraw(DrawIdle(tick_state, status, initial_total_seconds))
  /\ UNCHANGED <<seen, key_code, nodelay, current, tick_state, initial_total_seconds,
                 status, on_break, running, paused, mainVars, histVars,
                 harnessVars>>

\* prompt_continue's getch() returns k: the rest of prompt_continue, the rest of
\* handle_session_transition, and the loop's break or redraw that follows.
PromptKey(k) ==
  /\ pc \in {"prompt_break", "prompt_study"}
  /\ key_code' = k
  /\ nodelay' = NodelayAfterPrompt(k)
  /\ IF ~PromptContinue(k)
       THEN /\ Exit("prompt_quit")
            /\ UNCHANGED <<loopVars, ticks>>
       ELSE LET to_study == (pc = "prompt_study")
                ts == ContinueTickState(to_study, pomodoro, tick_state)
                st == IF to_study THEN "Running" ELSE "Break Running"
            IN /\ on_break' = ContinueKind(to_study, on_break)
               /\ current' = IF to_study THEN pomodoro ELSE current
               /\ tick_state' = ts
               /\ ticks' = IF to_study THEN 0 ELSE ticks
               /\ status' = st
               /\ running' = TRUE
               /\ Redraw(DrawRunning(ts, st, initial_total_seconds))
               /\ UNCHANGED <<paused, initial_total_seconds>>
  /\ UNCHANGED <<seen, mainVars, advances, transitions, start_break, last_completed,
                 pause_snapshot, harnessVars>>

Next ==
  \/ \E k \in MenuKeys : MenuMove(k)
  \/ StudyMenuEnter
  \/ BreakMenuEnter
  \/ \E k \in LoopKeys : HandleKey(k)
  \/ ClockAdvance
  \/ ClockIdle
  \/ \E k \in PromptKeys : PromptKey(k)

Spec == Init /\ [][Next]_vars

\* ------------------------------------------------------- timer_tick harness
\* Intervals fed to timer_tick: the loop's own, three more that divide one
\* second, and one that does not.
HarnessIntervals == {kIntervalUs, 250000, 400000, 500000, kMicrosecondsPerSecond}

\* The program itself is not running while a harness drives one function.
ProgramOff ==
  /\ debug_mode = FALSE /\ choice = 0 /\ study_choice = -1
  /\ pomodoro = NoSession /\ brk = NoSession /\ current = NoSession
  /\ tick_state = NoTick /\ initial_total_seconds = 0 /\ status = ""
  /\ on_break = FALSE /\ running = FALSE /\ paused = FALSE
  /\ key_code = "none" /\ nodelay = FALSE /\ screen = NoScreen
  /\ exit_code = -1 /\ exit_at = "none"
  /\ advances = 0 /\ transitions = 0 /\ start_break = FALSE /\ ticks = 0
  /\ last_completed = "None" /\ pause_snapshot = NoTick
  /\ seen = {}

\* timer_tick is called repeatedly on one TimerTickState until it returns true.
InitTick ==
  /\ pc = "harness"
  /\ ProgramOff
  /\ FillHarnessOff
  /\ DisplayHarnessOff
  /\ MenuHarnessOff
  /\ h_start \in {TimerTickState(n, 0) : n \in 0..MaxHarnessSeconds}
  /\ h_state = h_start
  /\ h_interval \in HarnessIntervals
  /\ h_calls = 0
  /\ h_expired = FALSE

HarnessAdvance ==
  /\ pc = "harness"
  /\ ~h_expired
  /\ LET r == TimerTick(h_state, h_interval) IN
       /\ h_state' = r.state
       /\ h_expired' = r.expired
  /\ h_calls' = h_calls + 1
  /\ UNCHANGED <<seen, pc, key_code, nodelay, exit_code, exit_at, mainVars, loopVars,
                 histVars, h_start, h_interval, fillVars, dispVars, menuVars>>

NextTick == HarnessAdvance

SpecTick == InitTick /\ [][NextTick]_vars

\* ------------------------------------------------------------- draw harness
\* Totals handed to draw's bar computation: every small total, and the total
\* of every preset of the two menus.
FillTotals ==
  (0..MaxFillTotal)
    \cup {SessionSeconds(StudyOptions(TRUE)[i]) : i \in 1..Len(StudyOptions(TRUE))}
    \cup {SessionSeconds(BreakOptions(TRUE)[i]) : i \in 1..Len(BreakOptions(TRUE))}

\* draw is called once with 0 <= remaining_seconds <= total_seconds.
InitFill ==
  /\ pc = "draw_harness"
  /\ ProgramOff
  /\ TickHarnessOff
  /\ DisplayHarnessOff
  /\ MenuHarnessOff
  /\ f_total \in FillTotals
  /\ f_remaining \in 0..f_total
  /\ f_fill = -1
  /\ f_divided = FALSE

DrawBar ==
  /\ pc = "draw_harness"
  /\ f_fill = -1
  /\ f_fill' = Fill(f_total, f_remaining)
  /\ f_divided' = FillDivides(f_total, f_remaining)
  /\ UNCHANGED <<seen, pc, key_code, nodelay, exit_code, exit_at, mainVars, loopVars,
                 histVars, tickVars, dispVars, menuVars, f_total,
                 f_remaining>>

NextFill == DrawBar

SpecFill == InitFill /\ [][NextFill]_vars

\* ---------------------------------------------------------- display harness
\* TickStates a redraw can meet: total_seconds from the full duration of any
\* preset down to 0, and an accumulator at the start, after one tick, or one
\* tick before the second boundary.
DisplayTotals ==
  UNION ({0..SessionSeconds(StudyOptions(TRUE)[i]) :
            i \in 1..Len(StudyOptions(TRUE))}
         \cup {0..SessionSeconds(BreakOptions(TRUE)[i]) :
                 i \in 1..Len(BreakOptions(TRUE))})
DisplayAccumulators == {0, kIntervalUs, kMicrosecondsPerSecond - kIntervalUs}

\* One redraw of the loop, by the running branch or by the stopped / paused
\* branch.
InitDisplay ==
  /\ pc = "display_harness"
  /\ ProgramOff
  /\ TickHarnessOff
  /\ FillHarnessOff
  /\ MenuHarnessOff
  /\ d_state \in {TimerTickState(n, e) : n \in DisplayTotals,
                                         e \in DisplayAccumulators}
  /\ d_running \in BOOLEAN
  /\ d_screen = NoScreen
  /\ d_overflow = FALSE

\* The redraw when the arithmetic stays in range, or overflows in a build
\* whose int wraps.
DisplayRedraw ==
  /\ pc = "display_harness"
  /\ pc' = "displayed"
  /\ d_overflow' = DisplayOverflows(d_state, d_running)
  /\ d_screen' = IF d_running
                   THEN DrawRunning(d_state, "Running", d_state.total_seconds)
                   ELSE DrawIdle(d_state, "Stopped", d_state.total_seconds)
  /\ UNCHANGED <<seen, key_code, nodelay, exit_code, exit_at, mainVars,
                 loopVars, histVars, tickVars, fillVars, menuVars, d_state,
                 d_running>>

\* The redraw when the arithmetic overflows in a build that traps signed
\* overflow: draw is never reached.
DisplayTrap ==
  /\ pc = "display_harness"
  /\ DisplayOverflows(d_state, d_running)
  /\ pc' = "trapped"
  /\ d_overflow' = TRUE
  /\ UNCHANGED <<seen, key_code, nodelay, exit_code, exit_at, mainVars,
                 loopVars, histVars, tickVars, fillVars, menuVars, d_state, d_running,
                 d_screen>>

NextDisplay == DisplayRedraw \/ DisplayTrap

SpecDisplay == InitDisplay /\ [][NextDisplay]_vars

\* ------------------------------------------------------------- menu harness
\* prompt_selection is called with 1..MaxMenuOptions options and
\* allow_quit = true, as main calls it; choice starts at 0.
InitMenu ==
  /\ pc = "menu_harness"
  /\ ProgramOff
  /\ TickHarnessOff
  /\ FillHarnessOff
  /\ DisplayHarnessOff
  /\ m_num_options \in 1..MaxMenuOptions
  /\ m_choice = 0
  /\ m_result = -2

\* One pass of prompt_selection's loop with a key that is not Enter.
MenuHarnessMove(k) ==
  /\ pc = "menu_harness"
  /\ k # "ENTER"
  /\ key_code' = k
  /\ m_choice' = LET max_choice == MaxChoice(m_num_options, TRUE) IN
                   IF k = "KEY_UP" THEN MenuUp(m_choice, max_choice)
                   ELSE IF k = "KEY_DOWN" THEN MenuDown(m_choice, max_choice)
                   ELSE m_choice
  /\ UNCHANGED <<seen, pc, nodelay, exit_code, exit_at, mainVars, loopVars,
                 histVars, tickVars, fillVars, dispVars, m_num_options,
                 m_result>>

\* Enter: prompt_selection returns.
MenuHarnessEnter ==
  /\ pc = "menu_harness"
  /\ key_code' = "ENTER"
  /\ m_result' = MenuReturn(m_choice, m_num_options, TRUE)
  /\ pc' = "menu_returned"
  /\ UNCHANGED <<seen, nodelay, exit_code, exit_at, mainVars, loopVars,
                 histVars, tickVars, fillVars, dispVars, m_num_options,
                 m_choice>>

NextMenu ==
  \/ \E k \in MenuKeys : MenuHarnessMove(k)
  \/ MenuHarnessEnter

SpecMenu == InitMenu /\ [][NextMenu]_vars

\* ================================================================= claims
\* Definitions used by the properties only.
RunState == IF ~running THEN "Stopped"
            ELSE IF paused THEN "Paused" ELSE "Running"

\* minutes*60 + seconds of a duration.
FullSeconds(t) == t.minutes * 60 + t.seconds

\* Duration of the session kind that is active.
ActiveDuration == IF on_break THEN brk ELSE pomodoro

\* timer_tick calls of the event loop per second of countdown.
TicksPerSecond == kMicrosecondsPerSecond \div kIntervalUs

InPrompt == pc \in {"prompt_break", "prompt_study"}

\* -------------------------------------------------------------------- C1
\* C1: handling the reset key 'r' leaves RunState Stopped (running and paused
\* both false), keeps the session kind, and loads total_seconds with
\* minutes*60+seconds of the active kind's duration (break duration on a break,
\* study duration otherwise) with the accumulator at 0; the rest of that
\* iteration does not change any of it.
C1_ResetReloadsActiveKind ==
  [][ /\ (pc = "getch" /\ key_code' = "r")
         => /\ pc' = "clock"
            /\ RunState' = "Stopped" /\ ~running' /\ ~paused'
            /\ on_break' = on_break
            /\ tick_state' = [total_seconds |-> FullSeconds(ActiveDuration),
                              elapsed_us |-> 0]
      /\ (pc = "clock" /\ key_code = "r")
         => /\ UNCHANGED <<tick_state, on_break, running, paused>>
            /\ tick_state = [total_seconds |-> FullSeconds(ActiveDuration),
                             elapsed_us |-> 0]
    ]_vars

\* Reset was handled on a break whose clock had already run down below the
\* break duration (the last redraw showed fewer seconds).
C1_Witness ==
  /\ pc = "clock" /\ key_code = "r" /\ on_break
  /\ screen.remaining_seconds < FullSeconds(brk)
  /\ tick_state.total_seconds = FullSeconds(brk)
  /\ FullSeconds(brk) # FullSeconds(pomodoro)

\* -------------------------------------------------------------------- C2
\* C2: the session kind changes only inside the session-transition procedure
\* (on its entry after a Study session expired, or on 'continue' after a Break
\* session expired), every session that expires is of the other kind than the
\* one that expired before it, and the session that runs after 'continue' is
\* of the other kind than the one that just expired.
C2_KindsAlternate ==
  [][ /\ on_break' # on_break
           => \/ (pc = "clock" /\ pc' = "prompt_break" /\ ~on_break
                    /\ transitions' = transitions + 1)
              \/ (pc = "prompt_study" /\ on_break
                    /\ key_code' \notin {"q", "Q"})
      /\ transitions' = transitions + 1
           => /\ last_completed' = (IF on_break THEN "Break" ELSE "Study")
              /\ last_completed' # last_completed
      /\ (InPrompt /\ pc' \in {"getch", "aborted"})
           => on_break' = (last_completed = "Study")
    ]_vars

\* Study, Break and Study have run and expired, in that order, since the loop
\* started.
C2_Witness ==
  /\ pc = "prompt_break" /\ ~start_break /\ transitions = 3
  /\ last_completed = "Study" /\ on_break

\* -------------------------------------------------------------------- C3
\* C3: the start/pause key 's' takes RunState Stopped to Running, Running to
\* Paused and Paused to Running, in both session kinds, and handling it changes
\* neither the session kind nor total_seconds nor the accumulator.
C3_StartPauseToggles ==
  [][ (pc = "getch" /\ key_code' = "s")
        => /\ pc' = "clock"
           /\ RunState = "Stopped" => RunState' = "Running"
           /\ RunState = "Running" => RunState' = "Paused"
           /\ RunState = "Paused" => RunState' = "Running"
           /\ on_break' = on_break
           /\ tick_state' = tick_state
    ]_vars

\* 's' has just resumed a paused break in the middle of a second.
C3_Witness ==
  /\ pc = "clock" /\ key_code = "s" /\ on_break
  /\ RunState = "Running" /\ pause_snapshot # NoTick
  /\ tick_state.elapsed_us > 0

\* -------------------------------------------------------------------- C4
\* C4: an iteration whose RunState after key handling is Stopped or Paused
\* does not advance the clock: total_seconds, accumulator, session kind and
\* RunState are unchanged by it (and timer_tick is not called).  Hence from the
\* handling of a pause until the first advance after the resume, tick_state is
\* exactly the tick_state that held when the pause was handled.
C4_IdleIterationKeepsClock ==
  /\ [](pause_snapshot # NoTick => tick_state = pause_snapshot)
  /\ [][ (pc = "clock" /\ RunState # "Running")
           => /\ UNCHANGED <<tick_state, on_break, running, paused>>
              /\ advances' = advances /\ ticks' = ticks
       ]_vars

\* Paused in the middle of a second, at least one whole iteration spent
\* paused with no key, then 's' again: the clock is about to advance from the
\* snapshot.
C4_Witness ==
  /\ pc = "clock" /\ key_code = "s" /\ RunState = "Running"
  /\ pause_snapshot # NoTick /\ pause_snapshot.elapsed_us > 0
  /\ screen.status \in {"Paused", "Break Paused"}

\* -------------------------------------------------------------------- C5
\* C5: from total_seconds = N > 0 and accumulator 0, calling timer_tick with an
\* interval that divides one second: through the first N whole seconds no call
\* returns true and total_seconds counts down by one per second, reaching 0
\* after N seconds; no call before the one completing the (N+1)-th second
\* returns true; that call returns true and leaves total_seconds at 0.
C5_ExpiryOnSecondAfterZero ==
  LET N == h_start.total_seconds
      per == kMicrosecondsPerSecond \div h_interval
  IN (pc = "harness" /\ N > 0 /\ h_start.elapsed_us = 0
        /\ kMicrosecondsPerSecond % h_interval = 0)
       => /\ h_calls <= (N + 1) * per
          /\ h_state.total_seconds >= 0
          /\ h_calls <= N * per
               => h_state.total_seconds = N - (h_calls \div per)
          /\ h_calls >= N * per => h_state.total_seconds = 0
          /\ h_calls < (N + 1) * per => ~h_expired
          /\ h_calls = (N + 1) * per => h_expired

\* The loop's interval, a start above one second, and the expiring call.
C5_Witness ==
  /\ pc = "harness" /\ h_expired
  /\ h_interval = kIntervalUs
  /\ h_start.total_seconds > 1
  /\ h_calls = (h_start.total_seconds + 1) * TicksPerSecond

\* -------------------------------------------------------------------- C6
\* The scenario's premise: the event loop runs the debug study preset 0:10 and
\* the advances are counted from a fresh study session.
DebugStudyRun == pomodoro = SessionTime(0, 10) /\ ~start_break

\* C6 as stated: after 1,000,000 microseconds of advances (100 ticks of 10,000
\* microseconds) the study clock has reached 0 and the transition to Break has
\* fired exactly once.
C6_AsStated ==
  (DebugStudyRun /\ advances * kIntervalUs = 1000000)
    => (transitions = 1 /\ on_break)

\* C6, amended: with the debug study preset 0:10 and the 10,000 microsecond
\* interval, total_seconds drops by one per 1,000,000 microseconds of advances
\* (so it is 9 after 100 ticks) and reaches 0 after 10,000,000 microseconds
\* (1000 ticks), no transition has fired before 11,000,000 microseconds, and
\* the 1100-th advance fires the transition to Break, exactly once.
C6_DebugStudyExpiresAfterElevenSeconds ==
  DebugStudyRun
    => /\ advances * kIntervalUs < 10000000
            => /\ transitions = 0 /\ ~on_break /\ tick_state.total_seconds > 0
               /\ tick_state.total_seconds
                    = 10 - ((advances * kIntervalUs) \div 1000000)
       /\ (advances * kIntervalUs >= 10000000
             /\ advances * kIntervalUs < 11000000)
            => (transitions = 0 /\ ~on_break /\ tick_state.total_seconds = 0)
       /\ advances * kIntervalUs = 11000000
            => (transitions = 1 /\ on_break)
       /\ transitions > 1
            => advances * kIntervalUs >= 11000000 + (FullSeconds(brk) + 1) * 1000000

\* The 1100-th advance has just fired the transition; the prompt is waiting.
C6_Witness ==
  /\ DebugStudyRun /\ pc = "prompt_break"
  /\ advances = 1100 /\ transitions = 1 /\ key_code = "ERR"

\* -------------------------------------------------------------------- C7
\* C7: handle_session_transition is entered only from an iteration in which
\* RunState is Running and timer_tick returns true with total_seconds already
\* 0, never while total_seconds > 0, and only by the call that completes the
\* active session's own countdown: the ((full seconds + 1) * 100)-th
\* timer_tick since the clock of that session was loaded.  While the prompt
\* waits and when it is answered no further transition is entered.
C7_TransitionOncePerExpiry ==
  [][ /\ transitions' > transitions
           => /\ transitions' = transitions + 1
              /\ pc = "clock" /\ RunState = "Running"
              /\ tick_state.total_seconds = 0
              /\ tick_state.elapsed_us + kIntervalUs >= kMicrosecondsPerSecond
              /\ ticks + 1 = (FullSeconds(ActiveDuration) + 1) * TicksPerSecond
              /\ InPrompt'
      /\ InPrompt => transitions' = transitions
      /\ (pc = "clock" /\ tick_state.total_seconds > 0) => ~InPrompt'
    ]_vars

\* The transition after the first Break session: it follows a 'continue'.
C7_Witness ==
  /\ pc = "prompt_study" /\ transitions = 2 /\ ~start_break
  /\ ticks = (FullSeconds(brk) + 1) * TicksPerSecond

\* -------------------------------------------------------------------- C8
\* C8: when the key polled at the top of an iteration is 'q', in any RunState
\* and either kind, the loop ends in that step: the process exits with no
\* timer_tick, no transition, no prompt, and tick_state, kind, flags, status
\* and screen as they were; nothing happens after the exit.
C8_QuitKeyEndsLoopAtOnce ==
  [][ /\ (pc = "getch" /\ key_code' = "q")
           => /\ pc' = "exited" /\ exit_at' = "loop_quit"
              /\ UNCHANGED <<tick_state, on_break, running, paused, status,
                             screen, nodelay, current>>
              /\ advances' = advances /\ ticks' = ticks
              /\ transitions' = transitions
      /\ pc # "exited"
    ]_vars

\* 'q' was polled while a break was running in the middle of a second.
C8_Witness ==
  /\ pc = "exited" /\ exit_at = "loop_quit" /\ key_code = "q"
  /\ RunState = "Running" /\ on_break /\ tick_state.elapsed_us > 0

\* -------------------------------------------------------------------- C9
\* C9: Quit confirmed in the study or the break menu exits with code 0 before
\* the event loop is entered (running stays false, no clock exists); 'q' or 'Q'
\* at a transition prompt ends the loop with running false, no further
\* timer_tick, and exit code 0.
C9_QuitLeavesWithoutRunning ==
  /\ [](exit_at \in {"study_menu", "break_menu"}
          => /\ pc = "exited" /\ exit_code = 0
             /\ ~running /\ tick_state = NoTick /\ advances = 0)
  /\ [](exit_at = "prompt_quit"
          => (pc = "exited" /\ exit_code = 0 /\ ~running))
  /\ [][ /\ (pc \in {"study_menu", "break_menu"} /\ key_code' = "ENTER"
               /\ choice = Len(MenuOptions))
              => /\ pc' = "exited" /\ exit_code' = 0
                 /\ exit_at' = pc
         /\ (InPrompt /\ key_code' \in {"q", "Q"})
              => /\ pc' = "exited" /\ exit_code' = 0
                 /\ exit_at' = "prompt_quit"
                 /\ ~running'
                 /\ advances' = advances
         /\ pc = "exited" => advances' = advances
       ]_vars

\* 'Q' answered the prompt that follows a completed Break.
C9_Witness ==
  /\ pc = "exited" /\ exit_at = "prompt_quit" /\ key_code = "Q"
  /\ last_completed = "Break"

\* ------------------------------------------------------------------- C10
\* C10: 'continue' at the prompt after a completed Study gives kind Break,
\* total_seconds = break duration in seconds, accumulator 0, RunState Running
\* and status "Break Running"; 'continue' after a completed Break gives kind
\* Study, total_seconds = study duration in seconds, accumulator 0, RunState
\* Running and status "Running"; 'quit' after a completed Break leaves the
\* kind Break and tick_state as it was.
C10_ContinueStartsFullSession ==
  [][ /\ (pc = "prompt_break" /\ key_code' \notin {"q", "Q"})
           => /\ last_completed = "Study"
              /\ on_break'
              /\ tick_state' = [total_seconds |-> FullSeconds(brk),
                                elapsed_us |-> 0]
              /\ RunState' = "Running"
              /\ status' = "Break Running"
      /\ (pc = "prompt_study" /\ key_code' \notin {"q", "Q"})
           => /\ last_completed = "Break"
              /\ ~on_break'
              /\ tick_state' = [total_seconds |-> FullSeconds(pomodoro),
                                elapsed_us |-> 0]
              /\ RunState' = "Running"
              /\ status' = "Running"
      /\ (pc = "prompt_study" /\ key_code' \in {"q", "Q"})
           => /\ on_break' /\ on_break
              /\ tick_state' = tick_state
    ]_vars

\* A new study session has just been started by 'continue' after a Break.
C10_Witness ==
  /\ pc = "getch" /\ last_completed = "Break" /\ transitions = 2
  /\ ~on_break /\ ticks = 0 /\ RunState = "Running"
  /\ tick_state = [total_seconds |-> FullSeconds(pomodoro), elapsed_us |-> 0]
  /\ status = "Running" /\ key_code \in PromptKeys \ {"q", "Q"}

\* ------------------------------------------------------------------- C11
\* C11: the terminal is in blocking mode only in the start-up menus and while
\* a confirmation prompt waits for its key; whatever the prompt's getch()
\* returns (a key, 'q', or ERR for an interrupted read) non-blocking mode is
\* restored in the same step, so every key poll at the top of a loop iteration
\* is made in non-blocking mode.
C11_PromptRestoresNonBlocking ==
  /\ [](pc \in {"getch", "clock"} => nodelay)
  /\ [](InPrompt => ~nodelay)
  /\ [](~nodelay => \/ pc \in {"study_menu", "break_menu"}
                    \/ InPrompt
                    \/ exit_at \in {"study_menu", "break_menu"})
  /\ [][InPrompt => nodelay']_vars

\* An interrupted read (ERR) answered the prompt after a Study session and the
\* loop is back at its key poll, before any further timer_tick.
C11_Witness ==
  /\ pc = "getch" /\ key_code = "ERR" /\ nodelay
  /\ on_break /\ status = "Break Running" /\ ticks = 0 /\ transitions = 1

\* ------------------------------------------------------------------- C12
\* C12: for 0 <= remaining <= total, draw's fill is 0 when total > 0 and
\* nothing has elapsed (remaining = total), it is the whole bar width 40 when
\* total > 0 and remaining = 0, and for total = 0 it is 0 with the division
\* not executed.
C12_FillEmptyAtStartFullAtEnd ==
  (pc = "draw_harness" /\ f_fill # -1)
    => /\ (f_total > 0 /\ f_total - f_remaining = 0) => f_fill = 0
       /\ (f_total > 0 /\ f_remaining = 0) => f_fill = 40
       /\ f_total = 0 => (f_fill = 0 /\ ~f_divided)

\* The bar of a finished 25:00 session has been computed.
C12_Witness ==
  /\ pc = "draw_harness" /\ f_total = 1500 /\ f_remaining = 0 /\ f_fill = 40

\* ------------------------------------------------------------------- C13
\* C13: at every redraw of the event loop the total handed to draw is the
\* full duration in seconds of the active session kind and the remaining value
\* is total_seconds; hence the bar is empty at the start of every session,
\* Break sessions and a reset on a break included.  (At the key poll the
\* screen is the redraw that ended the previous iteration.)
C13_AsStated ==
  pc = "getch"
    => /\ screen.total_seconds = FullSeconds(ActiveDuration)
       /\ screen.remaining_seconds = tick_state.total_seconds
       /\ tick_state = [total_seconds |-> FullSeconds(ActiveDuration),
                        elapsed_us |-> 0]
            => screen.fill = 0


\* ------------------------------------------------------------------- C14
\* C14: for every interval > 0 and every accumulator value, a call of
\* timer_tick whose addition makes the accumulator reach or exceed one second
\* leaves the accumulator at accumulator before + interval - 1,000,000: the
\* carry takes away exactly one second and no sub-second remainder is lost.
C14_AsStated ==
  [][(pc = "harness" /\ h_interval > 0
        /\ h_state.elapsed_us + h_interval >= kMicrosecondsPerSecond)
       => h_state'.elapsed_us
            = h_state.elapsed_us + h_interval - kMicrosecondsPerSecond]_vars


\* ------------------------------------------------------------------- C15
\* The six combinations of RunState and session kind (FALSE = Study).
RunStateKinds == {"Stopped", "Running", "Paused"} \X BOOLEAN

\* C15: at the top of a loop iteration the controller is in one of the six
\* combinations {Stopped, Running, Paused} x {Study, Break}, each of which
\* some run reaches, and the two flags encode nothing else: paused is never
\* true while running is false.
C15_FlagsEncodeRunState ==
  /\ paused => running
  /\ seen \subseteq RunStateKinds

\* One run whose key polls have found all six combinations.
C15_Witness ==
  /\ pc = "clock"
  /\ seen = RunStateKinds


\* ------------------------------------------------------------------- C16
\* C16: in the main loop a polled key other than 'q', 's' and 'r' (no key,
\* an arrow key, Enter, upper-case 'Q', 'S', 'R') is a no-op: the key handling
\* leaves RunState, session kind, status, TickState and everything else but
\* the key itself alone and goes on to the clock step, which does not read
\* the key, so the iteration is the one an iteration with no key would be.
C16_OtherKeysAreNoOps ==
  /\ [][(pc = "getch" /\ key_code' \notin {"q", "s", "r"})
          => /\ pc' = "clock"
             /\ UNCHANGED <<loopVars, histVars, mainVars, nodelay,
                            exit_code, exit_at>>]_vars
  /\ [][pc = "clock"
          => /\ key_code' = key_code
             /\ (running /\ ~paused) <=> advances' = advances + 1
             /\ ~(running /\ ~paused)
                  => UNCHANGED <<tick_state, on_break, running, paused,
                                 status>>]_vars

\* An upper-case 'R' was read during a paused break that has counted down:
\* nothing was reset.
C16_Witness ==
  /\ pc = "clock" /\ key_code = "R"
  /\ RunState = "Paused" /\ on_break /\ status = "Break Paused"
  /\ tick_state.total_seconds < FullSeconds(brk)


\* ------------------------------------------------------------------- C17
\* C17: at every redraw, for every combination of study and break presets
\* (the debug 0:10 study with a 5:00 or 10:00 break included), the bar fill is
\* within 0..40, so neither string length of the bar is negative and draw
\* returns; and within one session without reset the fill never decreases.
C17_AsStated ==
  /\ [](pc # "aborted")
  /\ [](screen # NoScreen => screen.fill \in 0..kBarWidth)
  /\ [][(pc = "clock" /\ pc' = "getch" /\ key_code # "r")
          => screen'.fill >= screen.fill]_vars


\* ------------------------------------------------------------------- C18
\* C18: with 32-bit int, for every preset and every TickState a redraw can
\* meet, total_seconds * 1,000,000 (minus the accumulator while running) does
\* not overflow, so the minutes and seconds handed to draw satisfy
\* 0 <= seconds <= 59 and minutes >= 0 and, when Stopped or Paused, equal
\* total_seconds div 60 and total_seconds mod 60.
C18_AsStated ==
  pc \in {"displayed", "trapped"}
    => /\ ~d_overflow
       /\ pc = "displayed"
       /\ d_screen.seconds \in 0..59
       /\ d_screen.minutes >= 0
       /\ ~d_running
            => /\ d_screen.minutes = d_state.total_seconds \div 60
               /\ d_screen.seconds = d_state.total_seconds % 60


\* ------------------------------------------------------------------- C19
\* The kind of session whose expiry was the last one.
CompletedDuration == IF last_completed = "Break" THEN brk ELSE pomodoro

\* timer_tick calls the active session still needs before one returns true.
CallsToExpiry ==
  (tick_state.total_seconds + 1) * TicksPerSecond
    - (tick_state.elapsed_us \div kIntervalUs)

\* C19: if RunState stays Running (no 's', 'r' or 'q' is read) and the loop
\* keeps iterating, the active session eventually expires and
\* handle_session_transition runs; for a fresh session of N seconds that is
\* on the (N+1)*100-th timer_tick call and on no earlier one.  As a variant:
\* while Running the loop can always take its next step (evaluated in the
\* states whose last poll found no key; the steps do not read key_code), a
\* key other than 's', 'r', 'q' leaves the number of calls still needed
\* alone, every clock step lowers it by one, and the step that takes it from
\* 1 runs the transition.
C19_RunningSessionExpires ==
  /\ []((pc = "getch" /\ RunState = "Running")
          => /\ key_code = "ERR" => ENABLED HandleKey("ERR")
             /\ CallsToExpiry \in 1..(FullSeconds(ActiveDuration) + 1)
                                      * TicksPerSecond)
  /\ []((pc = "clock" /\ RunState = "Running" /\ transitions < MaxTransitions
           /\ key_code = "ERR")
          => ENABLED ClockAdvance)
  /\ [][(pc = "getch" /\ RunState = "Running"
           /\ key_code' \notin {"q", "s", "r"})
          => (pc' = "clock" /\ RunState' = "Running"
                /\ CallsToExpiry' = CallsToExpiry)]_vars
  /\ [][(pc = "clock" /\ RunState = "Running")
          => IF CallsToExpiry = 1
               THEN InPrompt' /\ transitions' = transitions + 1
               ELSE /\ CallsToExpiry' = CallsToExpiry - 1
                    /\ ~InPrompt' /\ transitions' = transitions
                    /\ RunState' = "Running"]_vars
  /\ []((InPrompt /\ transitions = 1)
          => advances = (FullSeconds(CompletedDuration) + 1) * TicksPerSecond)
  /\ []((pc \in {"getch", "clock"} /\ transitions = 0)
          => advances < (FullSeconds(ActiveDuration) + 1) * TicksPerSecond)

\* A break started afresh by the reset key has run to its expiry.
C19_Witness ==
  /\ pc = "prompt_study" /\ start_break /\ transitions = 1
  /\ last_completed = "Break"
  /\ advances = (FullSeconds(brk) + 1) * TicksPerSecond


\* ------------------------------------------------------------------- C20
\* C20: in every state of the event loop the remaining seconds are between 0
\* and the full duration of the active session kind, and the accumulator is
\* within [0, 1,000,000) after every advance; the advance that returns
\* expired finds total_seconds at 0 and leaves it there, never below.
C20_TickStateInRange ==
  /\ [](tick_state # NoTick
          => /\ tick_state.total_seconds \in 0..FullSeconds(ActiveDuration)
             /\ tick_state.elapsed_us \in 0..(kMicrosecondsPerSecond - 1))
  /\ [][transitions' > transitions
          => /\ tick_state.total_seconds = 0
             /\ pc' = "prompt_study" => tick_state' = TimerTickState(0, 0)]_vars

\* A break has expired; the last key polled was a 'Q', which the loop ignores.
C20_Witness ==
  /\ pc = "prompt_study" /\ key_code = "Q" /\ status = "Break Running"
  /\ tick_state.total_seconds = 0 /\ tick_state.elapsed_us = 0


\* ------------------------------------------------------------------- C21
\* The status text that belongs to a session kind and a RunState.
StatusOf(brkOn, rs) ==
  IF brkOn THEN CASE rs = "Stopped" -> "Break Stopped"
                  [] rs = "Running" -> "Break Running"
                  [] rs = "Paused" -> "Break Paused"
           ELSE rs

\* C21: at every redraw of the timer screen the status string is the one that
\* belongs to (session kind, RunState), matching on_break and the running and
\* paused flags; "Break Ready" is never passed to a redraw.  (At the key poll
\* the screen is the redraw that ended the previous iteration or the prompt,
\* and the flags are those it was drawn with.)
C21_StatusMatchesFlags ==
  /\ screen.status # "Break Ready"
  /\ pc = "getch"
       => /\ screen.status = status
          /\ screen.status = StatusOf(on_break, RunState)

\* A paused break has been redrawn.
C21_Witness ==
  /\ pc = "getch" /\ on_break /\ running /\ paused
  /\ screen.status = "Break Paused"
  /\ screen.remaining_seconds < FullSeconds(brk)


\* ------------------------------------------------------------------- C22
\* The TickState of a session of the active kind that has not begun.
FullTickState == TimerTickState(FullSeconds(ActiveDuration), 0)

\* C22: whenever RunState is Stopped at the top of a loop iteration,
\* total_seconds is the full duration of the active session kind and the
\* accumulator is 0; so 's' from Stopped starts a full-length countdown, and
\* a key that sets a partially elapsed session running found it Paused.
C22_StoppedMeansFullSession ==
  /\ []((pc = "getch" /\ RunState = "Stopped") => tick_state = FullTickState)
  /\ [][(pc = "getch" /\ RunState = "Stopped" /\ key_code' = "s")
          => (RunState' = "Running" /\ tick_state' = FullTickState')]_vars
  /\ [][(pc = "getch" /\ RunState # "Running" /\ RunState' = "Running"
           /\ tick_state' # FullTickState')
          => RunState = "Paused"]_vars

\* A break that had been paused part-way was reset and is Stopped again.
C22_Witness ==
  /\ pc = "getch" /\ RunState = "Stopped" /\ on_break
  /\ status = "Break Stopped" /\ key_code = "ERR"
  /\ <<"Paused", TRUE>> \in seen
  /\ tick_state = FullTickState


\* ------------------------------------------------------------------- C23
\* The remaining time a screen shows, in seconds.
Shown(scr) == scr.minutes * 60 + scr.seconds

\* C23: within one session, as long as no reset key is handled, the remaining
\* time shown never increases from one redraw to the next, whatever the
\* interleaving of ticks and 's' keys, a pause in the middle of a second
\* included.  (The redraws of one session are those of the clock step; the
\* redraw that follows a prompt begins another session.)
C23_AsStated ==
  [][(pc = "clock" /\ pc' = "getch" /\ key_code # "r")
       => Shown(screen') <= Shown(screen)]_vars


\* ------------------------------------------------------------------- C24
\* C24: in prompt_selection with n >= 1 options and allow_quit = true the
\* highlighted index stays in 0..n: KEY_UP from 0 wraps to n (Quit), KEY_DOWN
\* from n wraps to 0, a key other than KEY_UP, KEY_DOWN and Enter leaves it
\* unchanged, and Enter returns -1 exactly when the index is n and otherwise
\* the index, which is in 0..n-1, a valid position of the list main indexes.
C24_MenuIndexInRange ==
  /\ [](pc \in {"menu_harness", "menu_returned"}
          => m_choice \in 0..m_num_options)
  /\ [][pc = "menu_harness"
          => CASE key_code' = "KEY_UP"
                    -> /\ m_choice' = IF m_choice = 0 THEN m_num_options
                                                      ELSE m_choice - 1
                       /\ pc' = "menu_harness"
               [] key_code' = "KEY_DOWN"
                    -> /\ m_choice' = IF m_choice = m_num_options
                                        THEN 0 ELSE m_choice + 1
                       /\ pc' = "menu_harness"
               [] key_code' = "ENTER"
                    -> /\ pc' = "menu_returned"
                       /\ m_result' = -1 <=> m_choice = m_num_options
                       /\ m_result' # -1
                            => /\ m_result' = m_choice
                               /\ m_result' \in 0..(m_num_options - 1)
               [] OTHER
                    -> m_choice' = m_choice /\ pc' = "menu_harness"]_vars

\* With a single option, KEY_UP from the first entry has wrapped to Quit and
\* Enter has returned -1.
C24_Witness ==
  /\ pc = "menu_returned" /\ m_num_options = 1
  /\ m_choice = 1 /\ m_result = -1

====
